---- MODULE Spec2Model ----
(***************************************************************************)
(* Model of ModulePackager (module_packager.py): the dependency resolver   *)
(* with its two strategies, the import (AST) walker and the metadata       *)
(* (Requires-Dist) walker, and the orchestrator inspect_dependencies.      *)
(*                                                                         *)
(* Python strings are sequences of one-character strings, so that split,   *)
(* join, replace and lower are computed as Python computes them.           *)
(***************************************************************************)
EXTENDS Integers, Sequences, FiniteSets, TLC

(***************************************************************************)
(* Bounds of the model.                                                    *)
(***************************************************************************)
\* number of inspect_dependencies calls made on one ModulePackager
MaxCalls == 2

(***************************************************************************)
(* Python str operations.                                                  *)
(***************************************************************************)
Dot == "."

RECURSIVE Split(_, _)
\* str.split(sep)
Split(s, sep) ==
    IF \A i \in 1..Len(s) : s[i] # sep
    THEN <<s>>
    ELSE LET i == CHOOSE k \in 1..Len(s) :
                      s[k] = sep /\ \A j \in 1..(k - 1) : s[j] # sep
         IN  <<SubSeq(s, 1, i - 1)>> \o Split(SubSeq(s, i + 1, Len(s)), sep)

RECURSIVE Join(_, _)
\* sep.join(parts)
Join(parts, sep) ==
    IF Len(parts) = 0 THEN <<>>
    ELSE IF Len(parts) = 1 THEN parts[1]
    ELSE parts[1] \o <<sep>> \o Join(Tail(parts), sep)

\* str.replace(a, b) for one-character a and b
Replace(s, a, b) == [i \in 1..Len(s) |-> IF s[i] = a THEN b ELSE s[i]]

\* str.lower() of one character, over the letters the model uses
LowerChar(c) ==
    CASE c = "A" -> "a"
      [] c = "B" -> "b"
      [] c = "F" -> "f"
      [] c = "O" -> "o"
      [] c = "R" -> "r"
      [] OTHER -> c

\* str.lower()
Lower(s) == [i \in 1..Len(s) |-> LowerChar(s[i])]

\* "." in s
HasDot(s) == \E i \in 1..Len(s) : s[i] = Dot

\* ".".join(name.split(".")[:i])
DottedPrefix(name, i) == Join(SubSeq(Split(name, Dot), 1, i), Dot)

\* name.split(".")[0]
TopLevel(name) == Split(name, Dot)[1]

\* f"{name}.py"
DotPy(name) == name \o <<".", "p", "y">>


(***************************************************************************)
(* Names used by the modelled repositories.                                *)
(***************************************************************************)
n_foo == <<"f", "o", "o">>
n_Foo == <<"F", "o", "o">>
n_FOO == <<"F", "O", "O">>
n_bar == <<"b", "a", "r">>
n_baz == <<"b", "a", "z">>
n_os == <<"o", "s">>
n_a == <<"a">>
n_a_sub == <<"a", ".", "s", "u", "b">>
n_sub == <<"s", "u", "b">>
n_b == <<"b">>
n_c == <<"c">>
n_d == <<"d">>
n_x_y == <<"x", "_", "y">>
n_xhy == <<"x", "-", "y">>
n_zzz == <<"z", "z", "z">>
n_mod == <<"m", "o", "d">>
n_star == <<"*">>
None == <<>>

(***************************************************************************)
(* AST nodes that _parse_imports looks at, in ast.walk order.              *)
(***************************************************************************)
Import(names) == [kind |-> "Import", names |-> names]

ImportFrom(module, names, level) ==
    [kind |-> "ImportFrom", module |-> module, names |-> names, level |-> level]

SyntaxError == "SyntaxError"

(***************************************************************************)
(* The site-packages directory: its entries, and for a directory entry the *)
(* regular *.py files below it.                                            *)
(***************************************************************************)
Dir(files) == [isdir |-> TRUE, files |-> files]

File(id) == [isdir |-> FALSE, files |-> {id}]

SitePackages ==
    (n_foo :> Dir({"foo/__init__.py"}))
    @@ (n_bar :> Dir({"bar/__init__.py"}))
    @@ (n_a :> Dir({"a/__init__.py", "a/two.py"}))
    @@ (n_b :> Dir({"b/__init__.py"}))
    @@ (n_c :> Dir({"c/__init__.py"}))
    @@ (n_xhy :> Dir({"x-y/m.py"}))
    @@ (n_d :> Dir({"d/bad.py", "d/ok.py"}))
    @@ (DotPy(n_mod) :> File("mod.py"))

\* the content of each source file: SyntaxError, or its import nodes
Sources ==
    [f \in {"foo/__init__.py", "bar/__init__.py", "a/__init__.py", "a/two.py",
            "b/__init__.py", "c/__init__.py", "x-y/m.py", "d/bad.py", "d/ok.py",
            "mod.py", "t/dot.py", "t/dotdot.py", "t/dotb.py", "t/dotsub.py",
            "t/dotdotb.py", "t/single.py", "t/variant.py"} |->
        CASE f = "foo/__init__.py" -> <<Import(<<n_bar, n_os>>)>>
          [] f = "bar/__init__.py" -> <<>>
          [] f = "a/__init__.py" ->
                <<Import(<<n_b>>), ImportFrom(n_a, <<n_sub>>, 0)>>
          [] f = "a/two.py" -> <<Import(<<n_c>>)>>
          [] f = "b/__init__.py" -> <<Import(<<n_c>>), Import(<<n_a>>)>>
          [] f = "c/__init__.py" -> <<Import(<<n_x_y>>)>>
          [] f = "x-y/m.py" -> <<ImportFrom(None, <<n_d, n_star>>, 1)>>
          [] f = "d/bad.py" -> SyntaxError
          [] f = "d/ok.py" -> <<Import(<<n_foo>>)>>
          [] f = "mod.py" -> <<Import(<<n_bar>>)>>
          \* from . import b, *
          [] f = "t/dot.py" -> <<ImportFrom(None, <<n_b, n_star>>, 1)>>
          \* from .. import b
          [] f = "t/dotdot.py" -> <<ImportFrom(None, <<n_b>>, 2)>>
          \* from .b import sub
          [] f = "t/dotb.py" -> <<ImportFrom(n_b, <<n_sub>>, 1)>>
          \* from .sub import c, *
          [] f = "t/dotsub.py" -> <<ImportFrom(n_sub, <<n_c, n_star>>, 1)>>
          \* from ..b import sub
          [] f = "t/dotdotb.py" -> <<ImportFrom(n_b, <<n_sub>>, 2)>>
          \* import mod
          [] f = "t/single.py" -> <<Import(<<n_mod>>)>>
          \* import x_y
          [] f = "t/variant.py" -> <<Import(<<n_x_y>>)>>]

\* importlib.util.find_spec(name): the origin of the spec found, and whether
\* str(site_packages) is in it; None when no spec (or no origin) is found
FindSpec(name) ==
    IF name = n_mod THEN [origin |-> "mod.py", inside |-> TRUE]
    ELSE IF name = n_os THEN [origin |-> "lib/os.py", inside |-> FALSE]
    ELSE None

(***************************************************************************)
(* Installed distributions (importlib.metadata).                           *)
(***************************************************************************)
\* a Requires-Dist entry "name[extras]; marker".  The marker is "none" (no
\* marker), "true" or "false" (a marker over the environment that holds or
\* does not hold, such as python_version < "3"), or "extra" (extra == "x")
Req(name, extras, marker) == [name |-> name, extras |-> extras, marker |-> marker]

Dist(name, top_level, requires) ==
    [Name |-> name, top_level |-> top_level, requires |-> requires]

Distributions ==
    { Dist(n_Foo, <<n_foo>>,
           <<Req(n_bar, {}, "none"), Req(n_baz, {}, "extra")>>),
      Dist(n_bar, <<>>, <<Req(n_FOO, {}, "true"), Req(n_zzz, {"y"}, "none")>>),
      Dist(n_baz, <<n_baz>>, <<Req(n_zzz, {}, "false")>>) }

(***************************************************************************)
(* The environments a ModulePackager is constructed in: the configuration  *)
(* file (excluded_modules, stdlib_modules, modules) and the interpreter.   *)
(***************************************************************************)
\* packaging is the installed packaging library: "new" (Marker.evaluate
\* defaults the extra variable to ""), "old" (Marker.evaluate raises
\* UndefinedEnvironmentName on it) or "absent" (the fallback Requirement
\* class of lines 44-53 is in use)
Env(excluded, extras, packaging) ==
    [excluded_modules |-> excluded,
     stdlib_module_names |-> {n_os},
     stdlib_modules |-> {},
     modules |-> extras,
     packaging |-> packaging]

NoModules == [m \in {} |-> <<>>]

Envs ==
    { Env({}, (n_a :> <<n_a_sub>>), "new"),
      Env({n_c}, NoModules, "old"),
      Env({n_xhy, n_bar}, NoModules, "absent") }

\* the names inspect_dependencies is called with
Roots == {n_foo, n_a, n_c, n_mod, n_zzz}

Strategies == {"auto", "metadata", "imports"}

ExtraModules == {<<>>, <<n_bar, n_zzz>>}

VARIABLES
    env,            \* the configuration the ModulePackager was constructed with
    pc,             \* where inspect_dependencies is: idle, metadata, fallback, imports
    ncalls,         \* number of inspect_dependencies calls started
    call,           \* arguments of the current (or last) call
    dep_modules,    \* inspect_dependencies: dep_modules
    dep_dists,      \* inspect_dependencies: dep_dists
    seen,           \* build_metadata_graph: seen
    mstack,         \* build_metadata_graph: stack
    d_dists,        \* build_metadata_graph: dep_dists
    d_mods,         \* build_metadata_graph: dep_modules
    d_tree,         \* build_metadata_graph: tree
    lookups,        \* lower-cased name -> number of importlib.metadata lookups
    processed,      \* self.processed
    external_deps,  \* self.external_deps
    import_edges,   \* self.import_edges
    frames,         \* call stack of find_module_dependencies activations
    walked,         \* name -> number of times its files were enumerated in this walk
    parsed,         \* (name, file) -> number of _parse_imports calls in this walk
    ret,            \* what the last call returned
    prev,           \* outcome of the call before the current one
    exc,            \* build_metadata_graph raised an exception in this call
    rpc,            \* where _render_tree is: idle, render, done
    adjacency,      \* _render_tree: adjacency
    roots,          \* _render_tree: roots
    roots_list,     \* _render_tree: the part of roots_list still to render
    rstack,         \* call stack of walk activations
    visited_in_path, \* _render_tree: visited_in_path
    global_visited, \* _render_tree: global_visited
    lines,          \* _render_tree: lines
    cpc,            \* where collect_modules_by_names is: idle, collect, done
    module_names,   \* collect_modules_by_names: module_names
    deps,           \* the part of sorted(set(module_names)) still to collect
    files_to_package \* collect_modules_by_names: the keys of files_to_package

vars == <<env, pc, ncalls, call, dep_modules, dep_dists, seen, mstack, d_dists,
          d_mods, d_tree, lookups, processed, external_deps, import_edges, frames,
          walked, parsed, ret, prev, exc, rpc, adjacency, roots, roots_list, rstack,
          visited_in_path, global_visited, lines, cpc, module_names, deps,
          files_to_package>>

collect == <<cpc, module_names, deps, files_to_package>>

render == <<rpc, adjacency, roots, roots_list, rstack, visited_in_path,
            global_visited, lines>>

walker == <<processed, external_deps, import_edges>>

packager == <<env, pc, ncalls, call, dep_modules, dep_dists, seen, mstack,
              d_dists, d_mods, d_tree, lookups, processed, external_deps,
              import_edges, frames, walked, parsed, ret, prev, exc>>

counters == <<walked, parsed>>

metadata == <<seen, mstack, d_dists, d_mods, d_tree, lookups>>

\* an empty dict of sets
EmptyGraph == [k \in {} |-> {}]

(***************************************************************************)
(* IMPORT (AST) STRATEGY                                                   *)
(***************************************************************************)
\* the module or one of its dotted parents is in excluded_modules
IsExcluded(name) ==
    \E i \in 1..Len(Split(name, Dot)) :
        DottedPrefix(name, i) \in env.excluded_modules

\* (self.site_packages / name).exists()
Exists(name) == name \in DOMAIN SitePackages

\* edges[p].add(c) on a defaultdict(set)
AddEdge(edges, p, c) ==
    IF p \in DOMAIN edges
    THEN [edges EXCEPT ![p] = @ \cup {c}]
    ELSE edges @@ (p :> {c})

\* _record_edge with parent and child swapped in the add
RecordEdgeReversed(edges, parent, child) ==
    IF parent = None \/ child = None THEN edges
    ELSE LET p == TopLevel(parent)
             c == TopLevel(child)
         IN  IF p # c THEN AddEdge(edges, c, p) ELSE edges

\* _record_edge that skips a child already in self.processed
RecordEdgeUnlessProcessed(edges, parent, child) ==
    IF parent = None \/ child = None \/ child \in processed THEN edges
    ELSE LET p == TopLevel(parent)
             c == TopLevel(child)
         IN  IF p # c THEN AddEdge(edges, p, c) ELSE edges

\* _record_edge without the test p != c
RecordEdgeWithSelf(edges, parent, child) ==
    IF parent = None \/ child = None THEN edges
    ELSE AddEdge(edges, TopLevel(parent), TopLevel(child))

\* _record_edge(parent, child), on the dict edges
RecordEdge(edges, parent, child) ==
    IF parent = None \/ child = None THEN edges
    ELSE LET p == TopLevel(parent)
             c == TopLevel(child)
         IN  IF p # c THEN AddEdge(edges, p, c) ELSE edges

\* the names of a sequence of aliases that are not "*"
RECURSIVE NotStar(_)
NotStar(names) ==
    IF names = <<>> THEN <<>>
    ELSE IF Head(names) # n_star THEN <<Head(names)>> \o NotStar(Tail(names))
    ELSE NotStar(Tail(names))

\* [f(x) for x in xs]
Qualify(prefix, names) == [i \in 1..Len(names) |-> prefix \o <<Dot>> \o names[i]]

\* a parent_module that is current_module itself
WholeModule(current_module) == current_module

\* parent_module = ".".join(current_module.split(".")[:-1])
ParentModule(current_module) ==
    LET parts == Split(current_module, Dot)
    IN  Join(SubSeq(parts, 1, Len(parts) - 1), Dot)

\* the names one AST node hands to _record_edge and _check_module, in order
NodeNames(node, current_module) ==
    IF node.kind = "Import" THEN node.names
    ELSE (IF node.module # None THEN <<node.module>>
          ELSE IF node.level > 0 /\ current_module # None /\ node.level = 1
          THEN IF HasDot(current_module)
               THEN LET parent_module == ParentModule(current_module)
                    IN  IF parent_module # None
                        THEN Qualify(parent_module, NotStar(node.names))
                        ELSE NotStar(node.names)
               ELSE NotStar(node.names)
          ELSE <<>>)
         \o (IF node.module # None
             THEN Qualify(node.module, NotStar(node.names))
             ELSE <<>>)

\* the names a parsed file hands to _record_edge and _check_module, in order
RECURSIVE TreeNames(_, _)
TreeNames(tree, current_module) ==
    IF tree = <<>> THEN <<>>
    ELSE NodeNames(Head(tree), current_module)
         \o TreeNames(Tail(tree), current_module)

\* the first variation that exists and is not processed, as a set
RECURSIVE FirstVariation(_, _)
FirstVariation(variations, done) ==
    IF variations = <<>> THEN {}
    ELSE IF Exists(Head(variations)) /\ Head(variations) \notin done
    THEN {Head(variations)}
    ELSE FirstVariation(Tail(variations), done)

\* the module or one of its dotted parents is a standard-library name: in
\* sys.stdlib_module_names, else in the stdlib_modules of the configuration
IsStdlib(name) ==
    LET prefixes == {DottedPrefix(name, i) : i \in 1..Len(Split(name, Dot))}
    IN  \/ prefixes \cap env.stdlib_module_names # {}
        \/ prefixes \cap env.stdlib_modules # {}

\* a test of line 433 that lets every name pass
WalkAgain(name, done) == TRUE

\* if partial not in self.processed
Unprocessed(name, done) == name \notin done

\* _check_module(module_name) with self.processed = done: the set of names
\* (empty or one name) it calls find_module_dependencies on
CheckModule(module_name, done) ==
    LET n == Len(Split(module_name, Dot))
        found == {i \in 1..n : Exists(DottedPrefix(module_name, i))}
        base == TopLevel(module_name)
    IN  IF module_name = None \/ module_name \in done THEN {}
        ELSE IF IsExcluded(module_name) THEN {}
        ELSE IF IsStdlib(module_name) THEN {}
        ELSE IF found # {}
        THEN LET longest == CHOOSE i \in found : \A j \in found : j <= i
                 partial == DottedPrefix(module_name, longest)
             IN  IF Unprocessed(partial, done) THEN {partial} ELSE {}
        ELSE FirstVariation(<<base, Replace(base, "_", "-"),
                              Replace(base, "-", "_")>>, done)

\* a pending activation of find_module_dependencies(name): "call" before its
\* first statement, "body" inside the loop over the files of the module
Frame(name) == [name |-> name, at |-> "call", files |-> {}, todo |-> <<>>]

Top == frames[Len(frames)]

Pop == SubSeq(frames, 1, Len(frames) - 1)

SetTop(f) == [frames EXCEPT ![Len(frames)] = f]

\* the files find_module_dependencies(name) hands to _parse_imports
FilesOf(name) ==
    IF Exists(name)
    THEN IF SitePackages[name].isdir
         THEN SitePackages[name].files
         ELSE IF Exists(DotPy(name)) THEN SitePackages[DotPy(name)].files
         ELSE {}
    ELSE LET spec == FindSpec(name)
         IN  IF spec # None /\ spec.inside THEN {spec.origin} ELSE {}

\* find_module_dependencies(name) reaches an external_deps.add(name)
Located(name) ==
    \/ Exists(name)
    \/ (FindSpec(name) # None /\ FindSpec(name).inside)

\* the guard of find_module_dependencies: the name was walked before
AlreadyProcessed(name) == name \in processed

\* the walker without self.processed.add(name)
NotMarkProcessed(name) == processed

\* self.processed = {name}
MarkOnlyThis(name) == {name}

\* self.processed.add(name)
MarkProcessed(name) == processed \cup {name}

\* count one more occurrence of k
Count(counts, k) ==
    IF k \in DOMAIN counts
    THEN [counts EXCEPT ![k] = @ + 1]
    ELSE counts @@ (k :> 1)

\* find_module_dependencies(module_name), from its first statement to the
\* start of the loop over the module's files
FindModuleDependencies ==
    /\ pc = "imports"
    /\ frames # <<>>
    /\ Top.at = "call"
    /\ LET module_name == Top.name
       IN  IF AlreadyProcessed(module_name)
           THEN /\ frames' = Pop
                /\ UNCHANGED <<processed, external_deps, walked>>
           ELSE /\ processed' = MarkProcessed(module_name)
                /\ walked' = Count(walked, module_name)
                /\ external_deps' =
                      IF Located(module_name) /\ ~IsExcluded(module_name)
                      THEN external_deps \cup {module_name}
                      ELSE external_deps
                /\ frames' = SetTop([Top EXCEPT !.at = "body",
                                                !.files = FilesOf(module_name)])
    /\ UNCHANGED <<render, collect, exc, env, pc, ncalls, call, dep_modules, dep_dists, metadata,
                   import_edges, parsed, ret, prev>>

\* an exception of _parse_imports leaving the loop over the files
AbortFiles(files) == {}

\* the files still to parse after the except clause of _parse_imports logged
\* the error of one file
AfterParseError(files) == files

\* _parse_imports(py_file, module_name) up to the loop over ast.walk(tree): the
\* next file of the module, in whatever order rglob yields the files
ParseImports ==
    /\ pc = "imports"
    /\ frames # <<>>
    /\ Top.at = "body"
    /\ Top.todo = <<>>
    /\ \E py_file \in Top.files :
          /\ frames' = SetTop([Top EXCEPT
                 !.files = IF Sources[py_file] = SyntaxError
                           THEN AfterParseError(@ \ {py_file})
                           ELSE @ \ {py_file},
                 !.todo = IF Sources[py_file] = SyntaxError THEN <<>>
                          ELSE TreeNames(Sources[py_file], Top.name)])
          /\ parsed' = Count(parsed, <<Top.name, py_file>>)
    /\ UNCHANGED <<render, collect, exc, env, pc, ncalls, call, dep_modules, dep_dists, metadata,
                   walker, walked, ret, prev>>

\* one _record_edge(current_module, name); _check_module(name) of the loop in
\* _parse_imports, up to the recursive call of find_module_dependencies
RecordAndCheck ==
    /\ pc = "imports"
    /\ frames # <<>>
    /\ Top.at = "body"
    /\ Top.todo # <<>>
    /\ LET name == Head(Top.todo)
           rest == SetTop([Top EXCEPT !.todo = Tail(@)])
           target == CheckModule(name, processed)
       IN  /\ import_edges' = RecordEdge(import_edges, Top.name, name)
           /\ frames' = IF target = {} THEN rest
                        ELSE rest \o <<Frame(CHOOSE t \in target : TRUE)>>
    /\ UNCHANGED <<render, collect, exc, env, pc, ncalls, call, dep_modules, dep_dists, metadata,
                   processed, external_deps, counters, ret, prev>>

\* find_module_dependencies returns: every file of the module was parsed
ReturnFromModule ==
    /\ pc = "imports"
    /\ frames # <<>>
    /\ Top.at = "body"
    /\ Top.todo = <<>>
    /\ Top.files = {}
    /\ frames' = Pop
    /\ UNCHANGED <<render, collect, exc, env, pc, ncalls, call, dep_modules, dep_dists, metadata,
                   walker, counters, ret, prev>>

(***************************************************************************)
(* METADATA STRATEGY                                                       *)
(***************************************************************************)
\* the name importlib.metadata looks a distribution up by
Normalized(name) == Lower(Replace(Replace(name, "-", "_"), ".", "_"))

\* importlib.metadata.distribution(name): the installed records it can return
\* (none: PackageNotFoundError)
Distribution(name) ==
    {d \in Distributions : Normalized(d.Name) = Normalized(name)}

\* _dist_top_levels(dist)
DistTopLevels(dist) ==
    IF dist.top_level # <<>> THEN dist.top_level
    ELSE IF dist.Name # None THEN <<Replace(dist.Name, "-", "_")>>
    ELSE <<>>

\* the elements of a sequence
Range(seq) == {seq[i] : i \in 1..Len(seq)}

\* the marker of a requirement without one (None in the code)
NoMarker == "none"

\* "[x]" for the extras {x} of a Requires-Dist entry, "" for none
Bracket(extras) ==
    IF extras = {} THEN <<>>
    ELSE <<"[">> \o <<CHOOSE x \in extras : TRUE>> \o <<"]">>

\* _normalize_req(req_str): (name, extras, marker) as Requirement gives them.
\* The fallback class cuts the entry at the first ";", "(" or " " and has
\* neither extras nor a marker
NormalizeReq(req) ==
    IF env.packaging = "absent"
    THEN [name |-> req.name \o Bracket(req.extras), extras |-> {},
          marker |-> NoMarker]
    ELSE [name |-> req.name, extras |-> req.extras, marker |-> req.marker]

\* marker.evaluate(): "True", "False", or "raises"
Evaluate(marker) ==
    CASE marker = "true" -> "True"
      [] marker = "false" -> "False"
      [] marker = "extra" ->
            IF env.packaging = "new" THEN "False" ELSE "raises"

\* the test of line 522 that skips whatever does not evaluate to True
SkipsUnlessTrue(marker) == marker # NoMarker /\ Evaluate(marker) # "True"

\* the test of lines 521-525: the marker is there, evaluates, and is false
SkipsOnMarker(marker) == marker # NoMarker /\ Evaluate(marker) = "False"

\* the requirement is followed: it has a name, its marker does not evaluate to
\* false, and it has no extras unless include_extras
Follows(req, include_extras) ==
    LET r == NormalizeReq(req)
    IN  /\ r.name # None
        /\ ~SkipsOnMarker(r.marker)
        /\ ~(r.extras # {} /\ ~include_extras)

\* the loop over Requires-Dist of dist_name: the tree and the stack after it
RECURSIVE FollowRequirements(_, _, _, _, _)
FollowRequirements(requires, dist_name, include_extras, tree, stack) ==
    IF requires = <<>> THEN [tree |-> tree, stack |-> stack]
    ELSE LET req == Head(requires)
         IN  IF Follows(req, include_extras)
             THEN FollowRequirements(Tail(requires), dist_name, include_extras,
                                     AddEdge(tree, dist_name,
                                             NormalizeReq(req).name),
                                     Append(stack, NormalizeReq(req).name))
             ELSE FollowRequirements(Tail(requires), dist_name, include_extras,
                                     tree, stack)

\* a seen key that keeps the spelling of the name
KeyExact(name) == name

\* key = name.lower()
Key(name) == Lower(name)

\* PackageNotFoundError leaving the while loop
AbortOnNotFound(popped) == <<>>

\* the stack after except PackageNotFoundError: continue
AfterNotFound(popped) == popped

\* one iteration of the while loop of build_metadata_graph
BuildMetadataGraphStep ==
    /\ pc = "metadata"
    /\ mstack # <<>>
    /\ LET name == mstack[Len(mstack)]
           popped == SubSeq(mstack, 1, Len(mstack) - 1)
           key == Key(name)
       IN  IF key \in seen
           THEN /\ mstack' = popped
                /\ UNCHANGED <<seen, d_dists, d_mods, d_tree, lookups>>
           ELSE /\ seen' = seen \cup {key}
                /\ lookups' = Count(lookups, Lower(name))
                /\ IF Distribution(name) = {}
                   THEN /\ mstack' = AfterNotFound(popped)
                        /\ UNCHANGED <<d_dists, d_mods, d_tree>>
                   ELSE \E dist \in Distribution(name) :
                          LET dist_name == dist.Name
                              after == FollowRequirements(dist.requires,
                                           dist_name, call.include_extras,
                                           d_tree, popped)
                          IN  /\ d_dists' = d_dists \cup {dist_name}
                              /\ d_mods' = d_mods \cup Range(DistTopLevels(dist))
                              /\ d_tree' = after.tree
                              /\ mstack' = after.stack
    /\ UNCHANGED <<render, collect, exc, env, pc, ncalls, call, dep_modules, dep_dists, walker,
                   frames, counters, ret, prev>>

(***************************************************************************)
(* inspect_dependencies                                                    *)
(***************************************************************************)
\* get_module_extras(module_name)
GetModuleExtras(module_name) ==
    IF module_name \in DOMAIN env.modules THEN env.modules[module_name]
    ELSE <<>>

\* the strategies that try build_metadata_graph first
MetadataFirst(strategy) == strategy \in {"metadata", "auto"}

\* the value returned by inspect_dependencies
Result(modules, dists, tree, kind, shared) ==
    [modules |-> modules, dists |-> dists, tree |-> tree, kind |-> kind,
     tree_is_import_edges |-> shared]

\* inspect_dependencies(module_or_dist, strategy, include_extras,
\* extra_modules), up to the choice of the strategy
InspectDependencies ==
    /\ pc = "idle"
    /\ ncalls < MaxCalls
    /\ \E module_or_dist \in Roots, strategy \in Strategies,
          include_extras \in BOOLEAN, extra_modules \in ExtraModules :
          /\ call' = [module_or_dist |-> module_or_dist, strategy |-> strategy,
                      include_extras |-> include_extras,
                      extra_modules |-> extra_modules]
          /\ dep_modules' = Range(GetModuleExtras(module_or_dist))
                                \cup Range(extra_modules)
          /\ pc' = IF MetadataFirst(strategy) THEN "metadata" ELSE "fallback"
          /\ mstack' = IF MetadataFirst(strategy) THEN <<module_or_dist>>
                       ELSE <<>>
    /\ ncalls' = ncalls + 1
    /\ dep_dists' = {}
    /\ seen' = {}
    /\ d_dists' = {}
    /\ d_mods' = {}
    /\ d_tree' = EmptyGraph
    /\ lookups' = << >>
    /\ prev' = [module_or_dist |-> call.module_or_dist, kind |-> ret.kind,
                processed |-> processed, external_deps |-> external_deps,
                import_edges |-> import_edges]
    /\ exc' = FALSE
    /\ UNCHANGED <<render, collect, env, walker, frames, counters, ret>>

\* the test of line 571 inverted
FoundNothingByMetadata == d_dists = {} /\ d_mods = {}

\* if d_dists or d_mods
FoundByMetadata == d_dists # {} \/ d_mods # {}

\* dep_modules = found
Overwrite(mods, found) == found

\* dep_modules |= found
Merge(mods, found) == mods \cup found

\* build_metadata_graph found something: return its result
ReturnMetadata ==
    /\ pc = "metadata"
    /\ mstack = <<>>
    /\ FoundByMetadata
    /\ dep_modules' = Merge(dep_modules, d_mods)
    /\ dep_dists' = dep_dists \cup d_dists
    /\ ret' = Result(dep_modules', dep_dists', d_tree, "metadata", FALSE)
    /\ pc' = "idle"
    /\ UNCHANGED <<render, collect, exc, env, ncalls, call, metadata, walker, frames, counters, prev>>

\* build_metadata_graph found nothing: go on after the if at line 566
MetadataEmpty ==
    /\ pc = "metadata"
    /\ mstack = <<>>
    /\ ~FoundByMetadata
    /\ pc' = "fallback"
    /\ UNCHANGED <<render, collect, exc, env, ncalls, call, dep_modules, dep_dists, metadata, walker,
                   frames, counters, ret, prev>>

\* an exception that no except clause of inspect_dependencies catches: the
\* call ends without a result
Propagated == "idle"

\* except Exception at line 576: the call goes on after the if
AfterException == "fallback"

\* an exception is raised inside build_metadata_graph (by importlib.metadata
\* on a damaged record, for instance): its local variables are gone
MetadataRaises ==
    /\ pc = "metadata"
    /\ mstack # <<>>
    /\ exc' = TRUE
    /\ pc' = AfterException
    /\ seen' = {}
    /\ mstack' = <<>>
    /\ d_dists' = {}
    /\ d_mods' = {}
    /\ d_tree' = EmptyGraph
    /\ lookups' = << >>
    /\ UNCHANGED <<render, collect, env, ncalls, call, dep_modules, dep_dists, walker,
                   frames, counters, ret, prev>>

\* the clear() calls without self.processed.clear()
ClearedButProcessed ==
    [processed |-> processed, external_deps |-> {}, import_edges |-> EmptyGraph]

\* the state of the import walker after the three clear() calls
Cleared == [processed |-> {}, external_deps |-> {}, import_edges |-> EmptyGraph]

\* clear the walker state and call find_module_dependencies(module_or_dist)
Fallback ==
    /\ pc = "fallback"
    /\ processed' = Cleared.processed
    /\ external_deps' = Cleared.external_deps
    /\ import_edges' = Cleared.import_edges
    /\ frames' = <<Frame(call.module_or_dist)>>
    /\ walked' = << >>
    /\ parsed' = << >>
    /\ pc' = "imports"
    /\ UNCHANGED <<render, collect, exc, env, ncalls, call, dep_modules, dep_dists, metadata, ret,
                   prev>>

\* the distributions that own a module of mods (best-effort inference)
InferDistributions(mods) ==
    {dist.Name : dist \in
        {d \in Distributions :
            /\ \E m \in mods : TopLevel(m) \in Range(DistTopLevels(d))
            /\ d.Name # None}}

\* find_module_dependencies(module_or_dist) returned: build the result
ReturnImports ==
    /\ pc = "imports"
    /\ frames = <<>>
    /\ dep_modules' = Merge(dep_modules, external_deps)
    /\ dep_dists' = dep_dists \cup InferDistributions(dep_modules')
    /\ ret' = Result(dep_modules', dep_dists', EmptyGraph, "imports", TRUE)
    /\ pc' = "idle"
    /\ UNCHANGED <<render, collect, exc, env, ncalls, call, metadata, walker, frames, counters, prev>>

\* the graph the caller of the last call holds
ReturnedTree == IF ret.tree_is_import_edges THEN import_edges ELSE ret.tree

(***************************************************************************)
(* TREE RENDERING                                                          *)
(***************************************************************************)
\* the node names of the rendered graphs, in the order sorted() puts them
NodeOrder == <<"a", "b", "c", "root", "shared", "x", "y">>

\* sorted(S)
Sorted(S) == SelectSeq(NodeOrder, LAMBDA n : n \in S)

\* adjacency.get(node, set())
Get(adj, node) == IF node \in DOMAIN adj THEN adj[node] ELSE {}

\* number of edges of the graphs handed to _render_tree
MaxEdges == 3

\* the nodes of the graphs handed to _render_tree
RenderNodes == {"a", "b", "c"}

\* the dict of sets that holds the edges E
Adjacency(E) ==
    [p \in {d[1] : d \in E} |-> {d[2] : d \in {x \in E : x[1] = p}}]

\* a shared dependency: root -> x -> shared and root -> y -> shared
Diamond ==
    ("root" :> {"x", "y"}) @@ ("x" :> {"shared"}) @@ ("y" :> {"shared"})

\* the calls of _render_tree: a graph and the roots to render it from
RenderCalls ==
    {[adjacency |-> Adjacency(E), roots |-> R] :
        E \in {F \in SUBSET (RenderNodes \X RenderNodes) :
                  Cardinality(F) <= MaxEdges},
        R \in SUBSET RenderNodes}
    \cup {[adjacency |-> Diamond, roots |-> {"root"}]}

\* one element of lines, f"{prefix}{connector}{node}{marker}\n": the prefix is
\* the sequence of its four-character segments, |-- and \-- stand for the
\* box-drawing connectors; on_path is the set of nodes whose walk activation
\* was running when the line was appended
Line(prefix, connector, node, marker, depth, on_path) ==
    [prefix |-> prefix, connector |-> connector, node |-> node,
     marker |-> marker, depth |-> depth, on_path |-> on_path]

\* the "\n" between the trees of two roots
Separator == Line(<<>>, "", "", "blank", 0, {})

\* the nodes whose walk activation is running
OnStack == {rstack[i].node : i \in DOMAIN rstack}

\* walk without visited_in_path.discard(node)
KeepInPath(path, node) == path

\* visited_in_path.discard(node)
Discard(path, node) == path \ {node}

\* walk(node, prefix, is_last, depth) with visited_in_path = path, up to its
\* loop over the children: the lines, the two sets, and the activation that
\* goes on (none when the node is circular)
WalkCall(node, prefix, is_last, depth, path) ==
    LET connector == IF is_last THEN "\\-- " ELSE "|-- "
    IN  IF node \in path
        THEN [lines |-> Append(lines, Line(prefix, connector, node,
                                          " (circular)", depth, OnStack)),
              path |-> path,
              global |-> global_visited,
              entered |-> <<>>]
        ELSE [lines |->
                 Append(lines,
                    IF depth = 0
                    THEN Line(<<>>, "", node, "", depth, OnStack)
                    ELSE Line(prefix, connector, node,
                              IF node \in global_visited
                              THEN " (already shown)" ELSE "",
                              depth, OnStack)),
              path |-> path \cup {node},
              global |-> global_visited \cup {node},
              entered |->
                 <<[node |-> node, prefix |-> prefix, is_last |-> is_last,
                    depth |-> depth,
                    children |-> IF node \in global_visited THEN <<>>
                                 ELSE Sorted(Get(adjacency, node))]>>]

\* the loop over roots_list: visited_in_path.clear(); walk(root, "", True, 0)
RenderRoot ==
    /\ rpc = "render"
    /\ rstack = <<>>
    /\ roots_list # <<>>
    /\ LET w == WalkCall(Head(roots_list), <<>>, TRUE, 0, {})
       IN  /\ lines' = w.lines
           /\ visited_in_path' = w.path
           /\ global_visited' = w.global
           /\ rstack' = w.entered
    /\ UNCHANGED <<rpc, adjacency, roots, roots_list, collect, packager>>

\* one iteration of the loop over the children: walk(child, child_prefix,
\* is_last_child, depth + 1)
WalkChild ==
    /\ rpc = "render"
    /\ rstack # <<>>
    /\ LET top == rstack[Len(rstack)]
       IN  /\ top.children # <<>>
           /\ LET child_prefix ==
                      IF top.depth = 0 THEN <<>>
                      ELSE Append(top.prefix,
                                  IF top.is_last THEN "    " ELSE "|   ")
                  w == WalkCall(Head(top.children), child_prefix,
                                Len(top.children) = 1, top.depth + 1,
                                visited_in_path)
              IN  /\ lines' = w.lines
                  /\ visited_in_path' = w.path
                  /\ global_visited' = w.global
                  /\ rstack' = [rstack EXCEPT ![Len(rstack)].children = Tail(@)]
                                  \o w.entered
    /\ UNCHANGED <<rpc, adjacency, roots, roots_list, collect, packager>>

\* walk returns: visited_in_path.discard(node); after the walk of a root that
\* is not the last one, the separating "\n" is appended
WalkReturn ==
    /\ rpc = "render"
    /\ rstack # <<>>
    /\ LET top == rstack[Len(rstack)]
       IN  /\ top.children = <<>>
           /\ visited_in_path' = Discard(visited_in_path, top.node)
           /\ rstack' = SubSeq(rstack, 1, Len(rstack) - 1)
           /\ IF top.depth = 0
              THEN /\ roots_list' = Tail(roots_list)
                   /\ lines' = IF Tail(roots_list) # <<>>
                               THEN Append(lines, Separator)
                               ELSE lines
              ELSE UNCHANGED <<roots_list, lines>>
    /\ UNCHANGED <<rpc, adjacency, roots, global_visited, collect, packager>>

\* return "".join(lines)
RenderReturn ==
    /\ rpc = "render"
    /\ rstack = <<>>
    /\ roots_list = <<>>
    /\ rpc' = "done"
    /\ UNCHANGED <<adjacency, roots, roots_list, rstack, visited_in_path,
                   global_visited, lines, collect, packager>>

\* _render_tree is not running
NotRendering ==
    /\ rpc = "idle"
    /\ adjacency = EmptyGraph
    /\ roots = {}
    /\ roots_list = <<>>
    /\ rstack = <<>>
    /\ visited_in_path = {}
    /\ global_visited = {}
    /\ lines = <<>>

(***************************************************************************)
(* FILE COLLECTION                                                         *)
(***************************************************************************)
n_p == <<"p">>
n_p_q == <<"p", ".", "q">>
n_p_q_d == <<"p", ".", "q", ".", "d">>
n_r == <<"r">>
n_m == <<"m">>

\* a file below site-packages: its path relative to site-packages, the module
\* or package it belongs to, and what the filters of lines 627-637 see in it:
\* "hidden" (name starts with "."), "pyc", "big" (a shared library above the
\* size limit) or "plain"
PackagedFile(path, module, kind) ==
    [path |-> path, module |-> module, kind |-> kind]

\* the name of the dist-info directory of a distribution, in two-character
\* and longer pieces where no operation looks inside them
InfoDir(name) == name \o <<"-", "1", ".dist-info">>

\* the site-packages directory that collect_modules_by_names packages from
PackagedTree ==
    (n_p :> Dir({PackagedFile("p/__init__.py", n_p, "plain"),
                 PackagedFile("p/q/__init__.py", n_p_q, "plain"),
                 PackagedFile("p/q/d.py", n_p_q_d, "plain"),
                 PackagedFile("p/.hidden", n_p, "hidden"),
                 PackagedFile("p/c.pyc", n_p, "pyc"),
                 PackagedFile("p/big.so", n_p, "big")}))
    @@ (n_r :> Dir({PackagedFile("r/__init__.py", n_r, "plain")}))
    @@ (DotPy(n_m) :> File(PackagedFile("m.py", n_m, "plain")))
    @@ (InfoDir(n_p) :>
           Dir({PackagedFile("p-1.dist-info/METADATA", n_p, "plain")}))
    @@ (InfoDir(n_r) :>
           Dir({PackagedFile("r-1.dist-info/METADATA", n_r, "plain")}))

\* the names collect_modules_by_names is called with, in sorted() order
CollectOrder == <<n_m, n_p, n_p_q, n_r>>

\* the excluded_modules of the configurations it runs under
CollectExclusions == {{}, {n_p_q}, {n_p}, {n_r}}

\* s.startswith(prefix)
StartsWith(s, prefix) ==
    Len(s) >= Len(prefix) /\ SubSeq(s, 1, Len(prefix)) = prefix

\* the files of lines 623-650: of the directory dep, or of dep.py beside the
\* file dep
ModuleFiles(dep) ==
    IF dep \in DOMAIN PackagedTree
    THEN IF PackagedTree[dep].isdir
         THEN {f \in PackagedTree[dep].files : f.kind = "plain"}
         ELSE IF DotPy(dep) \in DOMAIN PackagedTree
         THEN PackagedTree[DotPy(dep)].files
         ELSE IF dep[Len(dep)] = ".py" THEN PackagedTree[dep].files
         ELSE {}
    ELSE {}

\* the files of lines 653-669: of the *.dist-info and *.egg-info directories
\* that glob(f"{dep}*") matches and whose name is not excluded
InfoFiles(dep) ==
    UNION {PackagedTree[info_dir].files :
             info_dir \in
                {d \in DOMAIN PackagedTree :
                    /\ StartsWith(d, dep)
                    /\ PackagedTree[d].isdir
                    /\ d[Len(d)] \in {".dist-info", ".egg-info"}
                    /\ LET metadata_module ==
                               Replace(Split(d, "-")[1], "_", "-")
                       IN  /\ metadata_module \notin env.excluded_modules
                           /\ Replace(metadata_module, "-", "_")
                                 \notin env.excluded_modules}}

\* one iteration of the loop over sorted(set(module_names))
CollectDep ==
    /\ cpc = "collect"
    /\ deps # <<>>
    /\ LET dep == Head(deps)
       IN  files_to_package' =
              IF IsExcluded(dep) THEN files_to_package
              ELSE files_to_package
                     \cup {f.path : f \in ModuleFiles(dep) \cup InfoFiles(dep)}
    /\ deps' = Tail(deps)
    /\ UNCHANGED <<cpc, module_names, render, packager>>

\* return files_to_package
CollectReturn ==
    /\ cpc = "collect"
    /\ deps = <<>>
    /\ cpc' = "done"
    /\ UNCHANGED <<module_names, deps, files_to_package, render, packager>>

\* collect_modules_by_names is not running
NotCollecting ==
    /\ cpc = "idle"
    /\ module_names = {}
    /\ deps = <<>>
    /\ files_to_package = {}

NoCall ==
    [module_or_dist |-> None, strategy |-> "auto", include_extras |-> FALSE,
     extra_modules |-> <<>>]

\* a ModulePackager after __init__, before any call
Constructed ==
    /\ pc = "idle"
    /\ exc = FALSE
    /\ ncalls = 0
    /\ call = NoCall
    /\ dep_modules = {}
    /\ dep_dists = {}
    /\ seen = {}
    /\ mstack = <<>>
    /\ d_dists = {}
    /\ d_mods = {}
    /\ d_tree = EmptyGraph
    /\ lookups = << >>
    /\ processed = {}
    /\ external_deps = {}
    /\ import_edges = EmptyGraph
    /\ frames = <<>>
    /\ walked = << >>
    /\ parsed = << >>
    /\ ret = Result({}, {}, EmptyGraph, "None", FALSE)
    /\ prev = [module_or_dist |-> None, kind |-> "None", processed |-> {},
               external_deps |-> {}, import_edges |-> EmptyGraph]

Init ==
    /\ env \in Envs
    /\ Constructed
    /\ NotRendering
    /\ NotCollecting

\* collect_modules_by_names(module_names) is called on a ModulePackager
CollectInit ==
    /\ \E excluded \in CollectExclusions :
          env = Env(excluded, NoModules, "absent")
    /\ Constructed
    /\ NotRendering
    /\ module_names \in SUBSET Range(CollectOrder)
    /\ deps = SelectSeq(CollectOrder, LAMBDA n : n \in module_names)
    /\ cpc = "collect"
    /\ files_to_package = {}

\* _render_tree(adjacency, roots) is called: it is a static method, no state
\* of a ModulePackager takes part
RenderInit ==
    /\ env = Env({}, NoModules, "absent")
    /\ Constructed
    /\ NotCollecting
    /\ \E c \in RenderCalls :
          /\ adjacency = c.adjacency
          /\ roots = c.roots
          /\ roots_list = Sorted(c.roots)
    /\ rpc = "render"
    /\ rstack = <<>>
    /\ visited_in_path = {}
    /\ global_visited = {}
    /\ lines = <<>>

\* the source files handed to _parse_imports on their own
TestFiles ==
    {"t/dot.py", "t/dotdot.py", "t/dotb.py", "t/dotsub.py", "t/dotdotb.py",
     "t/single.py", "t/variant.py"}

\* the modules they are parsed for (current_module)
TestModules == {n_a, n_a_sub, n_foo, n_xhy}

\* find_module_dependencies(current_module), which an import walk has reached,
\* is about to call _parse_imports(py_file, current_module)
ParseInit ==
    /\ env \in Envs
    /\ NotRendering
    /\ NotCollecting
    /\ \E py_file \in TestFiles, current_module \in TestModules :
          /\ call = [module_or_dist |-> current_module, strategy |-> "imports",
                      include_extras |-> FALSE, extra_modules |-> <<>>]
          /\ frames = <<[name |-> current_module, at |-> "body",
                         files |-> {py_file}, todo |-> <<>>]>>
          /\ processed = {current_module}
          /\ external_deps = IF IsExcluded(current_module) THEN {}
                             ELSE {current_module}
          /\ walked = (current_module :> 1)
    /\ pc = "imports"
    /\ exc = FALSE
    /\ ncalls = 1
    /\ dep_modules = {}
    /\ dep_dists = {}
    /\ seen = {}
    /\ mstack = <<>>
    /\ d_dists = {}
    /\ d_mods = {}
    /\ d_tree = EmptyGraph
    /\ lookups = << >>
    /\ import_edges = EmptyGraph
    /\ parsed = << >>
    /\ ret = Result({}, {}, EmptyGraph, "None", FALSE)
    /\ prev = [module_or_dist |-> None, kind |-> "None", processed |-> {},
               external_deps |-> {}, import_edges |-> EmptyGraph]

Walk ==
    \/ FindModuleDependencies
    \/ ParseImports
    \/ RecordAndCheck
    \/ ReturnFromModule

\* the steps of a call of inspect_dependencies that has started
Run ==
    \/ BuildMetadataGraphStep
    \/ ReturnMetadata
    \/ MetadataEmpty
    \/ Fallback
    \/ Walk
    \/ ReturnImports

Next ==
    \/ InspectDependencies
    \/ Run

Spec == Init /\ [][Next]_vars

\* a call that has started keeps running: the code is synchronous and
\* single-threaded, nothing suspends it
FairSpec == Spec /\ WF_vars(Run)

\* the calls of inspect_dependencies in an environment where the metadata
\* walker can fail
ExcNext ==
    \/ Next
    \/ MetadataRaises

ExcSpec == Init /\ [][ExcNext]_vars

\* _parse_imports(py_file, current_module) and the walks it starts
ParseSpec == ParseInit /\ [][Walk]_vars

CollectNext ==
    \/ CollectDep
    \/ CollectReturn

\* a call of collect_modules_by_names
CollectSpec == CollectInit /\ [][CollectNext]_vars

RenderNext ==
    \/ RenderRoot
    \/ WalkChild
    \/ WalkReturn
    \/ RenderReturn

\* a call of _render_tree, which runs to its end like any other call
RenderSpec == RenderInit /\ [][RenderNext]_vars /\ WF_vars(RenderNext)

(***************************************************************************)
(* Properties.                                                             *)
(***************************************************************************)
\* a call has returned and ret is its result
Returned == pc = "idle" /\ ncalls > 0

\* build_metadata_graph has returned two empty sets
MetadataFoundNothing == d_dists = {} /\ d_mods = {}

\* find_module_dependencies(module_or_dist) is about to execute its first
\* statement
WalkStarts == pc = "imports" /\ frames = <<Frame(call.module_or_dist)>>

\* find_module_dependencies(module_or_dist) has returned
WalkComplete == pc = "imports" /\ frames = <<>>

\* C1: with strategy auto, when build_metadata_graph returns an empty
\* distribution set and an empty module set, the import walker runs next; when
\* find_module_dependencies(root) starts, processed, external_deps and
\* import_edges are empty; the call reports strategy_used = imports.
C1_FallbackToImports ==
    /\ [][(call.strategy = "auto" /\ pc = "metadata" /\ mstack = <<>>
              /\ MetadataFoundNothing) => pc' = "fallback"]_vars
    /\ [][pc = "fallback" => WalkStarts']_vars
    /\ []((call.strategy = "auto" /\ MetadataFoundNothing /\ WalkStarts)
             => (processed = {} /\ external_deps = {}
                   /\ import_edges = EmptyGraph))
    /\ []((Returned /\ call.strategy = "auto" /\ MetadataFoundNothing)
             => ret.kind = "imports")

\* C1 happens: an auto call fell back to imports although the walker state
\* left by the previous call was not empty
C1_Witness ==
    /\ Returned
    /\ call.strategy = "auto"
    /\ MetadataFoundNothing
    /\ ret.kind = "imports"
    /\ prev.processed # {}
    /\ prev.import_edges # EmptyGraph

\* C2 (as claimed): when the metadata walker returns empty sets and the import
\* walker discovers no module, the call returns strategy_used = none with
\* empty module and distribution sets.
C2_NothingFoundIsNone ==
    (Returned /\ MetadataFirst(call.strategy) /\ MetadataFoundNothing
        /\ external_deps = {})
    => (ret.kind = "None" /\ ret.modules = {} /\ ret.dists = {})

\* C3 (as claimed): with strategy metadata, find_module_dependencies is never
\* invoked and strategy_used is never imports.
C3_MetadataOnly ==
    call.strategy = "metadata"
    => (pc \notin {"fallback", "imports"}
          /\ (Returned => ret.kind # "imports"))

\* C4: with strategy auto or metadata, when build_metadata_graph yields a
\* non-empty distribution set or module set, the call returns at once with
\* strategy_used = metadata and the metadata graph, and processed,
\* external_deps and import_edges are what they were when the call started.
C4_MetadataReturns ==
    /\ [][(MetadataFirst(call.strategy) /\ pc = "metadata" /\ mstack = <<>>
              /\ (d_dists # {} \/ d_mods # {}))
            => (pc' = "idle" /\ ret'.kind = "metadata" /\ ret'.tree = d_tree
                  /\ ~ret'.tree_is_import_edges /\ UNCHANGED walker)]_vars
    /\ []((Returned /\ ret.kind = "metadata")
            => (/\ MetadataFirst(call.strategy)
                /\ ReturnedTree = d_tree
                /\ processed = prev.processed
                /\ external_deps = prev.external_deps
                /\ import_edges = prev.import_edges))

\* C4 happens: a metadata result was returned while the walker held the state
\* of an earlier import walk
C4_Witness ==
    /\ Returned
    /\ ret.kind = "metadata"
    /\ ret.tree # EmptyGraph
    /\ processed # {}
    /\ import_edges # EmptyGraph

\* C5: whatever the strategy and the outcome of the walkers, every
\* caller-supplied extra module is in the returned module set.
C5_ExtraModulesReturned ==
    Returned => Range(call.extra_modules) \subseteq ret.modules

\* C5 happens: extra modules that no walker found are returned, after a
\* fallback to imports
C5_Witness ==
    /\ Returned
    /\ call.strategy = "auto"
    /\ ret.kind = "imports"
    /\ external_deps # {}
    /\ n_zzz \in Range(call.extra_modules)
    /\ n_zzz \notin external_deps
    /\ n_zzz \in ret.modules

\* C6 (as claimed): no name that is excluded, or has an excluded dotted
\* ancestor, is in the module set returned by inspect_dependencies.
C6_NoExcludedModuleReturned ==
    Returned => \A m \in ret.modules : ~IsExcluded(m)

\* the installed name an imported name stands for, exclusion set aside: its
\* longest dotted prefix in site-packages, else its first existing variation
ResolvesTo(name) ==
    LET n == Len(Split(name, Dot))
        found == {i \in 1..n : Exists(DottedPrefix(name, i))}
        base == TopLevel(name)
    IN  IF found # {}
        THEN {DottedPrefix(name, CHOOSE i \in found : \A j \in found : j <= i)}
        ELSE FirstVariation(<<base, Replace(base, "_", "-"),
                              Replace(base, "-", "_")>>, {})

\* the installed names the source files of a module import
ImportsOf(name) ==
    UNION {ResolvesTo(y) :
             y \in UNION {Range(TreeNames(Sources[f], name)) :
                            f \in {g \in FilesOf(name) :
                                      Sources[g] # SyntaxError}}}

\* the names reachable from the names of S by imports, never entering avoid
RECURSIVE Reachable(_, _)
Reachable(S, avoid) ==
    LET T == S \cup (UNION {ImportsOf(m) : m \in S} \ avoid)
    IN  IF T = S THEN S ELSE Reachable(T, avoid)

\* the names that root reaches, but only through e
OnlyThrough(root, e) == Reachable({root}, {}) \ Reachable({root} \ {e}, {e})

\* name is e or a dotted descendant of e
DescendantOf(name, e) ==
    \E i \in 1..Len(Split(name, Dot)) : DottedPrefix(name, i) = e

\* C7 (as claimed): after an import walk, for every excluded name e, neither e
\* nor a dotted descendant of e nor a name the root reaches only through e is
\* in external_deps.
C7_ExclusionClosure ==
    WalkComplete =>
        \A e \in env.excluded_modules :
            /\ \A m \in external_deps : ~DescendantOf(m, e)
            /\ external_deps \cap OnlyThrough(call.module_or_dist, e) = {}

\* C8: the import walk started by find_module_dependencies(root) terminates,
\* also on cyclic imports, and in one walk the files of a name are enumerated
\* at most once and each of them is parsed at most once for that name.
C8_WalkTerminates ==
    /\ [](\A name \in DOMAIN walked : walked[name] <= 1)
    /\ [](\A k \in DOMAIN parsed : parsed[k] <= 1)
    /\ (pc = "imports") ~> (pc = "idle")

\* C8 happens: a walk over the cycle a -> b -> a, with a importing itself,
\* has returned
C8_Witness ==
    /\ Returned
    /\ ret.kind = "imports"
    /\ n_b \in ImportsOf(n_a)
    /\ n_a \in ImportsOf(n_b)
    /\ n_a \in ImportsOf(n_a)
    /\ {n_a, n_b} \subseteq DOMAIN walked
    /\ <<n_a, "a/two.py">> \in DOMAIN parsed

\* the nodes of a graph: its keys and their children
Nodes(edges) == DOMAIN edges \cup UNION {edges[p] : p \in DOMAIN edges}

\* C9 (as claimed): after an import walk, processed has as many elements as
\* the graph import_edges has nodes.
C9_ProcessedSizeIsNodeCount ==
    WalkComplete => Cardinality(processed) = Cardinality(Nodes(import_edges))

\* C9 (amended): after an import walk, every parent (key) of import_edges is
\* the top-level segment of a name in processed, so processed has at least as
\* many elements as import_edges has parents.
C9_ParentsAreProcessed ==
    WalkComplete =>
        /\ \A p \in DOMAIN import_edges :
              \E name \in processed : TopLevel(name) = p
        /\ Cardinality(DOMAIN import_edges) <= Cardinality(processed)

\* C9 (amended) happens: a walk ends with edges, and with a node that was
\* never processed
C9_Witness ==
    /\ WalkComplete
    /\ import_edges # EmptyGraph
    /\ Nodes(import_edges) \ processed # {}
    /\ Cardinality(processed) # Cardinality(Nodes(import_edges))

\* C10: two import walks of the same root, each from a cleared state, end with
\* the same external_deps and the same import_edges, whatever order the files
\* of each package were parsed in.
C10_WalkIsDeterministic ==
    (WalkComplete /\ prev.kind = "imports"
        /\ prev.module_or_dist = call.module_or_dist)
    => (external_deps = prev.external_deps
          /\ import_edges = prev.import_edges)

\* C10 happens: the package a, which has two files, was walked twice in a row
C10_Witness ==
    /\ WalkComplete
    /\ prev.kind = "imports"
    /\ prev.module_or_dist = call.module_or_dist
    /\ call.module_or_dist = n_a
    /\ Cardinality(FilesOf(n_a)) > 1
    /\ Cardinality(DOMAIN import_edges) > 2

\* C11 (as claimed): in an import walk no standard-library name is in
\* external_deps and no edge of import_edges leads to one; resolving foo (which
\* imports bar and os) with the imports strategy returns external_deps =
\* {foo, bar}, the edges {foo: {bar}} and strategy_used = imports.
C11_NoEdgeToStdlib ==
    /\ \A m \in external_deps : ~IsStdlib(m)
    /\ \A p \in DOMAIN import_edges : \A c \in import_edges[p] : ~IsStdlib(c)
    /\ (Returned /\ call.strategy = "imports" /\ call.module_or_dist = n_foo
           /\ ~IsExcluded(n_bar))
        => (/\ external_deps = {n_foo, n_bar}
            /\ ReturnedTree = (n_foo :> {n_bar})
            /\ ret.kind = "imports")

\* the metadata walk of the current call has emptied its stack
MetadataWalkComplete == pc = "metadata" /\ mstack = <<>>

\* C12 (as claimed): the distribution Foo requires bar, and baz under the
\* extra x; its metadata walk ends with the distributions Foo and bar when
\* include_extras is false and with Foo, bar and baz when it is true.
C12_ExtrasFollowIncludeExtras ==
    (MetadataWalkComplete /\ call.module_or_dist = n_foo)
    => d_dists = IF call.include_extras THEN {n_Foo, n_bar, n_baz}
                 ELSE {n_Foo, n_bar}

\* the while loop of build_metadata_graph is about to pop a name it has not
\* seen, and dist is the installed record of that name
Expands(dist) ==
    /\ pc = "metadata"
    /\ mstack # <<>>
    /\ Lower(mstack[Len(mstack)]) \notin seen
    /\ dist \in Distribution(mstack[Len(mstack)])

\* evaluating the marker of the Requires-Dist entry is possible and gives
\* False
EvaluatesFalse(req) ==
    /\ env.packaging # "absent"
    /\ \/ req.marker = "false"
       \/ req.marker = "extra" /\ env.packaging = "new"

\* the extras test of line 526 lets the Requires-Dist entry pass
PassesExtras(req) ==
    req.extras = {} \/ call.include_extras \/ env.packaging = "absent"

\* C15: when a distribution is expanded, a requirement that passes the extras
\* test gets its edge and is pushed unless its marker can be evaluated and
\* evaluates to false; a marker whose evaluation raises, or that cannot be
\* evaluated because packaging is missing, does not drop the requirement.
C15_MarkerFailsOpen ==
    [][\A dist \in Distributions :
          Expands(dist) =>
             \A i \in DOMAIN dist.requires :
                LET req == dist.requires[i]
                    rname == NormalizeReq(req).name
                IN  PassesExtras(req) =>
                      ((/\ dist.Name \in DOMAIN d_tree'
                        /\ rname \in d_tree'[dist.Name]
                        /\ rname \in Range(mstack'))
                       <=> ~EvaluatesFalse(req))]_vars

\* C15 happens: with a packaging whose evaluation of extra == "x" raises, baz
\* was followed from Foo, and the requirement of baz whose marker is false was
\* dropped
C15_Witness ==
    /\ MetadataWalkComplete
    /\ env.packaging = "old"
    /\ n_Foo \in DOMAIN d_tree
    /\ n_baz \in d_tree[n_Foo]
    /\ n_baz \in d_dists
    /\ n_baz \notin DOMAIN d_tree

\* the while loop of build_metadata_graph is about to pop a name it has not
\* seen and that has no installed record
PopsNotFound ==
    /\ pc = "metadata"
    /\ mstack # <<>>
    /\ Lower(mstack[Len(mstack)]) \notin seen
    /\ Distribution(mstack[Len(mstack)]) = {}

\* C16: popping a name without an installed record changes neither the
\* distributions, nor the modules, nor the edges, and leaves the rest of the
\* stack to the loop; when the loop ends, the root and every name that was
\* pushed have been popped and looked at.
C16_NotFoundIsSkipped ==
    /\ [][PopsNotFound =>
            (/\ pc' = "metadata"
             /\ UNCHANGED <<d_dists, d_mods, d_tree>>
             /\ mstack' = SubSeq(mstack, 1, Len(mstack) - 1))]_vars
    /\ [](MetadataWalkComplete =>
            /\ Lower(call.module_or_dist) \in seen
            /\ \A p \in DOMAIN d_tree : \A c \in d_tree[p] : Lower(c) \in seen)

\* C16 happens: zzz, required by bar, was popped and not found while FOO was
\* still on the stack
C16_Witness ==
    /\ pc = "metadata"
    /\ n_bar \in DOMAIN d_tree
    /\ n_zzz \in d_tree[n_bar]
    /\ Lower(n_zzz) \in seen
    /\ n_zzz \notin d_dists
    /\ mstack = <<n_FOO>>

\* C17: build_metadata_graph terminates, also when the requirements form a
\* cycle, and in one run no two lookups are made for names that are equal up
\* to letter case.
C17_MetadataWalkTerminates ==
    /\ [](\A k \in DOMAIN lookups : lookups[k] <= 1)
    /\ (pc = "metadata") ~> (pc # "metadata")

\* C17 happens: the walk over the cycle Foo -> bar -> FOO has ended, and foo
\* was looked up once
C17_Witness ==
    /\ MetadataWalkComplete
    /\ {n_Foo, n_bar} \subseteq DOMAIN d_tree
    /\ n_bar \in d_tree[n_Foo]
    /\ n_FOO \in d_tree[n_bar]
    /\ n_foo \in DOMAIN lookups
    /\ lookups[n_foo] = 1

\* C18: every edge of import_edges goes from a name without a dot to a
\* different name without a dot.
C18_EdgesAreTopLevel ==
    \A p \in DOMAIN import_edges :
        /\ ~HasDot(p)
        /\ \A c \in import_edges[p] : ~HasDot(c) /\ c # p

\* C18 happens: a/__init__.py, which has "from a import sub", was parsed and
\* a has edges
C18_Witness ==
    /\ pc = "imports"
    /\ <<n_a, "a/__init__.py">> \in DOMAIN parsed
    /\ n_a_sub \in Range(TreeNames(Sources["a/__init__.py"], n_a))
    /\ n_a \in DOMAIN import_edges
    /\ n_b \in import_edges[n_a]
    /\ frames = <<>>

\* C19: from the reset of the walker state until the result of the import walk
\* is built, every step leaves processed a superset of what it was.
C19_ProcessedOnlyGrows ==
    [][pc = "imports" => processed \subseteq processed']_vars

\* C19 happens: an import walk that processed several names has returned
C19_Witness ==
    /\ WalkComplete
    /\ Cardinality(processed) >= 3

\* _parse_imports is about to read py_file for the module on top of the stack
Parses(py_file) ==
    /\ pc = "imports"
    /\ frames # <<>>
    /\ Top.at = "body"
    /\ Top.todo = <<>>
    /\ py_file \in Top.files
    /\ <<Top.name, py_file>> \notin DOMAIN parsed

\* C20: parsing a file that has a syntax error changes neither the edges nor
\* processed nor external_deps and queues no name for _check_module, and the
\* other files of the module stay to be parsed; when the walk ends, every file
\* of every walked module was handed to _parse_imports, and a located, not
\* excluded module that was walked is in external_deps.
C20_ParseErrorIsNotFatal ==
    /\ [][\A f \in DOMAIN Sources :
            (Parses(f) /\ Sources[f] = SyntaxError
               /\ <<Top.name, f>> \in DOMAIN parsed')
            => (/\ UNCHANGED walker
                /\ Len(frames') = Len(frames)
                /\ frames'[Len(frames')].todo = <<>>
                /\ frames'[Len(frames')].files = Top.files \ {f})]_vars
    /\ [](WalkComplete =>
            \A name \in DOMAIN walked :
               /\ \A f \in FilesOf(name) : <<name, f>> \in DOMAIN parsed
               /\ (Located(name) /\ ~IsExcluded(name))
                     => name \in external_deps)

\* C20 happens: the walk has ended, d/bad.py (a syntax error) was parsed, d is
\* in external_deps and the import of d/ok.py gave the edge d -> foo
C20_Witness ==
    /\ WalkComplete
    /\ Sources["d/bad.py"] = SyntaxError
    /\ <<n_d, "d/bad.py">> \in DOMAIN parsed
    /\ n_d \in external_deps
    /\ n_d \in DOMAIN import_edges
    /\ n_foo \in import_edges[n_d]

\* _render_tree has returned
Rendered == rpc = "done"

\* the indexes of the lines that show node n
Occurrences(n) ==
    {i \in DOMAIN lines : lines[i].marker # "blank" /\ lines[i].node = n}

\* line i is followed by the line of a child of its node
HasChildrenBeneath(i) ==
    /\ i < Len(lines)
    /\ lines[i + 1].marker # "blank"
    /\ lines[i + 1].depth = lines[i].depth + 1

\* C13 (as claimed): in the output of _render_tree at most one occurrence of a
\* node has children beneath it, and every occurrence after the first is
\* marked as already shown or circular and has no children beneath it; the
\* diamond rendered from root shows shared exactly twice.
C13_LaterOccurrencesAreMarked ==
    Rendered =>
        /\ \A n \in Range(NodeOrder) :
              /\ Cardinality({i \in Occurrences(n) : HasChildrenBeneath(i)}) <= 1
              /\ \A i \in Occurrences(n) :
                    (\E j \in Occurrences(n) : j < i)
                    => (/\ lines[i].marker \in {" (already shown)", " (circular)"}
                        /\ ~HasChildrenBeneath(i))
        /\ (adjacency = Diamond /\ roots = {"root"})
              => Cardinality(Occurrences("shared")) = 2

\* C14: _render_tree returns for every graph; a line has the circular marker
\* exactly when its node is the node of a walk activation that was running
\* when the line was appended, and no line of a child follows such a line;
\* visited_in_path is the set of nodes of the running activations.
C14_RenderTerminates ==
    /\ [](\A i \in DOMAIN lines :
             lines[i].marker # "blank" =>
                /\ (lines[i].marker = " (circular)"
                      <=> lines[i].node \in lines[i].on_path)
                /\ lines[i].marker = " (circular)" => ~HasChildrenBeneath(i))
    /\ [](rpc = "render" => visited_in_path = OnStack)
    /\ (rpc = "render") ~> Rendered

\* C14 happens: the cycle a -> b -> a was rendered from a, in three lines, the
\* last one showing a as circular
C14_Witness ==
    /\ Rendered
    /\ adjacency = ("a" :> {"b"}) @@ ("b" :> {"a"})
    /\ roots = {"a"}
    /\ Len(lines) = 3
    /\ lines[3].node = "a"
    /\ lines[3].marker = " (circular)"
    /\ lines[2].marker = ""

\* the name is in site-packages as <name>.py only, not as a directory
SingleFileOnly(name) == ~Exists(name) /\ Exists(DotPy(name))

\* C22 (as claimed): when a walk ends, every name that a parsed file imports
\* and that exists only as <name>.py in site-packages (and is neither stdlib
\* nor excluded) was walked, its file was parsed for it, and it is in
\* external_deps.
C22_SingleFileResolved ==
    WalkComplete =>
        \A k \in DOMAIN parsed :
            Sources[k[2]] # SyntaxError =>
                \A y \in Range(TreeNames(Sources[k[2]], k[1])) :
                    (SingleFileOnly(y) /\ ~IsStdlib(y) /\ ~IsExcluded(y))
                    => (/\ y \in processed
                        /\ y \in external_deps
                        /\ \A f \in SitePackages[DotPy(y)].files :
                              <<y, f>> \in DOMAIN parsed)

\* the loop of _parse_imports is about to hand the name Head(Top.todo) to
\* _record_edge and _check_module
Checking ==
    /\ pc = "imports"
    /\ frames # <<>>
    /\ Top.at = "body"
    /\ Top.todo # <<>>

\* the dotted prefixes of name that exist in site-packages
ExistingPrefixes(name) ==
    {p \in {DottedPrefix(name, i) : i \in 1..Len(Split(name, Dot))} : Exists(p)}

\* the name the claim lets _check_module(name) start the walker on, as a set
ExpectedStart(name) ==
    LET E == ExistingPrefixes(name)
        base == TopLevel(name)
        V == <<base, Replace(base, "_", "-"), Replace(base, "-", "_")>>
        I == {i \in 1..3 : Exists(V[i]) /\ V[i] \notin processed}
    IN  IF E # {}
        THEN {p \in E : (\A q \in E : Len(q) <= Len(p)) /\ p \notin processed}
        ELSE IF I = {} THEN {}
        ELSE {V[CHOOSE i \in I : \A j \in I : i <= j]}

\* C23: _check_module on a name that is not stdlib, not excluded and not
\* processed starts at most one activation of find_module_dependencies: on the
\* longest existing dotted prefix if it is not processed, and, when no prefix
\* exists, on the first underscore/hyphen variant of the top-level segment that
\* exists and is not processed.
C23_CheckStartsOneWalk ==
    [][Checking =>
          LET name == Head(Top.todo)
          IN  (~IsStdlib(name) /\ ~IsExcluded(name) /\ name \notin processed)
              => (/\ Len(frames') \in {Len(frames), Len(frames) + 1}
                  /\ (IF Len(frames') > Len(frames)
                      THEN {frames'[Len(frames')].name} ELSE {})
                       = ExpectedStart(name)
                  /\ Len(frames') > Len(frames)
                       => frames'[Len(frames')]
                            = Frame(frames'[Len(frames')].name)
                  /\ processed' = processed)]_vars

\* C23 happens: from . import b, parsed for a.sub, gave the name a.b, whose
\* prefix a was walked once; the walk went on to c, whose import of x_y was
\* resolved to the variant x-y
C23_Witness ==
    /\ WalkComplete
    /\ <<n_a_sub, "t/dot.py">> \in DOMAIN parsed
    /\ {n_a, n_c, n_xhy} \subseteq DOMAIN walked
    /\ walked[n_a] = 1
    /\ walked[n_xhy] = 1
    /\ n_x_y \notin processed

\* name without its last dotted segment
WithoutLastSegment(name) ==
    LET dots == {i \in 1..Len(name) : name[i] = Dot}
    IN  SubSeq(name, 1, (CHOOSE i \in dots : \A j \in dots : j <= i) - 1)

\* what the claim lets the extractor yield for "from . import ..." (no module
\* path) in a file of current_module
RelativeNames(node, current_module) ==
    LET symbols == SelectSeq(node.names, LAMBDA s : s # n_star)
    IN  IF node.level = 1
        THEN [i \in 1..Len(symbols) |->
                 IF HasDot(current_module)
                 THEN WithoutLastSegment(current_module) \o <<Dot>> \o symbols[i]
                 ELSE symbols[i]]
        ELSE <<>>

\* the files whose only statement is a relative from-import without a module
RelativeFiles ==
    {f \in TestFiles :
        /\ Len(Sources[f]) = 1
        /\ Sources[f][1].kind = "ImportFrom"
        /\ Sources[f][1].module = None
        /\ Sources[f][1].level >= 1}

\* C24: parsing "from . import s, ..." (no module path) for current_module
\* queues, for each symbol that is not "*", s itself when the level is 1 and
\* current_module has no dot, and parent.s when the level is 1 and it has one;
\* with a level above 1 it queues nothing, so no edge is recorded and no name
\* checked.
C24_RelativeImportNames ==
    /\ [][\A f \in RelativeFiles :
            Parses(f) =>
               frames'[Len(frames')].todo = RelativeNames(Sources[f][1], Top.name)]_vars
    /\ [](\A k \in DOMAIN parsed :
             (k[2] \in RelativeFiles /\ Sources[k[2]][1].level > 1)
             => (import_edges = EmptyGraph /\ processed = {k[1]}))

\* C24 happens: from . import b, * was parsed for a.sub and a.b is about to be
\* recorded and checked
C24_Witness ==
    /\ Checking
    /\ Len(frames) = 1
    /\ Top.name = n_a_sub
    /\ <<n_a_sub, "t/dot.py">> \in DOMAIN parsed
    /\ Top.todo = <<n_a \o <<Dot>> \o n_b>>
    /\ import_edges = EmptyGraph

\* the files whose only statement is a relative from-import with a module
\* path, such as from .b import sub
RelativeModuleFiles ==
    {f \in TestFiles :
        /\ Len(Sources[f]) = 1
        /\ Sources[f][1].kind = "ImportFrom"
        /\ Sources[f][1].module # None
        /\ Sources[f][1].level >= 1}

\* C28 (as claimed): after a relative from-import with a module path was
\* parsed for current_module, every edge leads to the top-level package of
\* current_module (so none is recorded) and no name of another top-level
\* package was walked.
C28_RelativeImportStaysInside ==
    \A k \in DOMAIN parsed :
        (k[2] \in RelativeModuleFiles /\ frames # <<>> /\ frames[1].name = k[1])
        => (/\ \A p \in DOMAIN import_edges :
                  import_edges[p] \subseteq {TopLevel(k[1])}
            /\ \A name \in DOMAIN walked : TopLevel(name) = TopLevel(k[1]))

\* C25 (as claimed): the graph that an imports call returned is not changed
\* by the next inspect_dependencies call: while that call runs, and after it,
\* import_edges (the object the caller was given) still holds the edges it
\* held when the imports call returned.
C25_ReturnedGraphIsStable ==
    prev.kind = "imports" => import_edges = prev.import_edges

\* C26: an exception raised inside build_metadata_graph is caught by
\* inspect_dependencies: the call goes on to the fallback, which starts
\* find_module_dependencies(root) with processed, external_deps and
\* import_edges empty, and the result it returns is an imports result whose
\* module set holds the caller-supplied extra modules.
C26_MetadataExceptionIsCaught ==
    /\ [][(pc = "metadata" /\ exc') => pc' = "fallback"]_vars
    /\ [][(pc = "fallback" /\ exc)
            => (/\ WalkStarts'
                /\ processed' = {}
                /\ external_deps' = {}
                /\ import_edges' = EmptyGraph)]_vars
    /\ [](exc => (MetadataFirst(call.strategy) /\ pc # "metadata"))
    /\ []((Returned /\ exc)
            => (/\ ret.kind = "imports"
                /\ Range(call.extra_modules) \subseteq ret.modules
                /\ external_deps \subseteq ret.modules))

\* C26 happens: a metadata call whose walker raised has returned by imports,
\* with an extra module that no walker found, after an earlier call had left
\* walker state behind
C26_Witness ==
    /\ Returned
    /\ exc
    /\ call.strategy = "metadata"
    /\ ret.kind = "imports"
    /\ prev.processed # {}
    /\ n_zzz \in Range(call.extra_modules)
    /\ n_zzz \notin external_deps
    /\ n_zzz \in ret.modules

\* C27 (as claimed): when build_metadata_graph ends, every parent key of its
\* tree is in its distribution set, and so is, under the same spelling, every
\* child that has an installed metadata record.
C27_TreeMatchesDistributions ==
    MetadataWalkComplete =>
        /\ DOMAIN d_tree \subseteq d_dists
        /\ \A p \in DOMAIN d_tree :
              \A c \in d_tree[p] : Distribution(c) # {} => c \in d_dists

\* the files of the packaged site-packages directory
AllPackagedFiles == UNION {PackagedTree[d].files : d \in DOMAIN PackagedTree}

\* C21 (as claimed): no file that collect_modules_by_names collects belongs
\* to a module or package that is excluded or has an excluded dotted ancestor.
C21_NoExcludedFileCollected ==
    \A f \in AllPackagedFiles :
        f.path \in files_to_package => ~IsExcluded(f.module)

====
